---------------------------- MODULE Spec2Model ----------------------------
(***************************************************************************)
(* The Address Mapping Engine of the PLC configuration builder:            *)
(*   - the batch builder parseCSVData and its helpers (plc-parser.ts),     *)
(*   - the interactive mapping table (address-mappings-table.tsx),         *)
(*   - the export projection and its deduplication (PlcConfigBuilder).     *)
(*                                                                         *)
(* JavaScript strings are sequences of one-character strings, so that      *)
(* split, padStart, slice, startsWith, endsWith and the template literals  *)
(* are computed character by character.  JavaScript array and Set indices  *)
(* are 0-based: At(list, i) is list[i].                                    *)
(***************************************************************************)
EXTENDS Integers, Sequences, FiniteSets, TLC

VARIABLES
    mappings,               \* PlcConfigBuilder.addressMappings / the table's mappings prop
    plcNo,                  \* PlcConfigBuilder.plcNo
    parseResult,            \* PlcConfigBuilder.parseResult (NoResult before an import)
    selectedMemoryAreas,    \* PlcConfigBuilder.selectedMemoryAreas
    selectedRegisters,      \* the table's selectedRegisters (mirrored to the parent)
    expandedBoolChannels,   \* the table's expandedBoolChannels
    modifiedChannelBits,    \* the table's modifiedChannelBits: index -> set of bits
    channelBitStates,       \* the memoised channelBitStates: index -> set of bits
    pending,                \* the call held by useDebouncedCallback (NoCall when idle)
    plcName,                \* PlcConfigBuilder.plcName
    exported,               \* the address_mappings of the last generated JSON
    csvData,                \* input of the batch builder (SpecParse)
    dedupeIn,               \* input of dedupeByOpcuaName (SpecDedupe)
    dedupeOut,              \* its result (SpecDedupe)
    callArgs,               \* arguments of a call of an exported function (SpecFunctions)
    callResult,             \* what the call returned (SpecFunctions)
    edits,                  \* history: calls of updateMapping so far
    last                    \* history: the operation that produced this state

vars == << mappings, plcNo, parseResult, selectedMemoryAreas, selectedRegisters,
           expandedBoolChannels, modifiedChannelBits, channelBitStates, pending,
           plcName, exported, csvData, dedupeIn, dedupeOut, callArgs, callResult,
           edits, last >>

----------------------------------------------------------------------------
(* JavaScript string primitives                                            *)

Digits == {"0", "1", "2", "3", "4", "5", "6", "7", "8", "9"}

LowerLetters == << "a", "b", "c", "d", "e", "f", "g", "h", "i", "j", "k", "l", "m",
                   "n", "o", "p", "q", "r", "s", "t", "u", "v", "w", "x", "y", "z" >>

UpperLetters == << "A", "B", "C", "D", "E", "F", "G", "H", "I", "J", "K", "L", "M",
                   "N", "O", "P", "Q", "R", "S", "T", "U", "V", "W", "X", "Y", "Z" >>

At(list, i) == list[i + 1]

Indices(list) == 0 .. (Len(list) - 1)

UpperChar(c) ==
    IF \E k \in 1..26 : LowerLetters[k] = c
    THEN UpperLetters[CHOOSE k \in 1..26 : LowerLetters[k] = c]
    ELSE c

LowerChar(c) ==
    IF \E k \in 1..26 : UpperLetters[k] = c
    THEN LowerLetters[CHOOSE k \in 1..26 : UpperLetters[k] = c]
    ELSE c

toUpperCase(s) == [k \in 1..Len(s) |-> UpperChar(s[k])]

toLowerCase(s) == [k \in 1..Len(s) |-> LowerChar(s[k])]

startsWith(s, p) == Len(s) >= Len(p) /\ SubSeq(s, 1, Len(p)) = p

endsWith(s, p) == Len(s) >= Len(p) /\ SubSeq(s, Len(s) - Len(p) + 1, Len(s)) = p

includes(s, c) == \E k \in 1..Len(s) : s[k] = c

slice1(s) == SubSeq(s, 2, Len(s))

startsWithDigit(s) == Len(s) > 0 /\ s[1] \in Digits

RECURSIVE split(_, _)
split(s, c) ==
    IF ~includes(s, c) THEN << s >>
    ELSE LET k == CHOOSE k \in 1..Len(s) :
                      s[k] = c /\ \A j \in 1..(k - 1) : s[j] # c
         IN  << SubSeq(s, 1, k - 1) >> \o split(SubSeq(s, k + 1, Len(s)), c)

\* s.split('.')[1]: undefined when there is no second part
NoString == << "undefined" >>

splitPart1(s) == IF Len(split(s, ".")) >= 2 THEN split(s, ".")[2] ELSE NoString

\* padStart2 with the zeros put after the string
RECURSIVE padEnd2(_)
padEnd2(s) == IF Len(s) >= 2 THEN s ELSE padEnd2(s \o << "0" >>)

RECURSIVE padStart2(_)
padStart2(s) == IF Len(s) >= 2 THEN s ELSE padStart2(<< "0" >> \o s)

DigitValue(c) == CHOOSE n \in 0..9 : << "0", "1", "2", "3", "4", "5", "6", "7", "8", "9" >>[n + 1] = c

DigitChar(n) == << "0", "1", "2", "3", "4", "5", "6", "7", "8", "9" >>[n + 1]

RECURSIVE numberToString(_)
numberToString(n) ==
    IF n < 10 THEN << DigitChar(n) >>
    ELSE numberToString(n \div 10) \o << DigitChar(n % 10) >>

\* parseInt(s): the value of the longest prefix of decimal digits, NaN when empty
NaN == -1

RECURSIVE parseIntFrom(_, _)
parseIntFrom(s, acc) ==
    IF Len(s) = 0 \/ s[1] \notin Digits THEN acc
    ELSE parseIntFrom(Tail(s), 10 * acc + DigitValue(s[1]))

parseInt(s) == IF Len(s) = 0 \/ s[1] \notin Digits THEN NaN ELSE parseIntFrom(s, 0)


----------------------------------------------------------------------------
(* String literals of the source                                           *)

BOOL == << "B", "O", "O", "L" >>
CHANNEL == << "C", "H", "A", "N", "N", "E", "L" >>
channelLower == << "c", "h", "a", "n", "n", "e", "l" >>
WORD == << "W", "O", "R", "D" >>
UDINT == << "U", "D", "I", "N", "T" >>
DWORD == << "D", "W", "O", "R", "D" >>
INT == << "I", "N", "T" >>
REAL == << "R", "E", "A", "L" >>
LREAL == << "L", "R", "E", "A", "L" >>
ModifiedChannelType ==
    << "m", "o", "d", "i", "f", "i", "e", "d", " ", "c", "h", "a", "n", "n", "e", "l" >>
ModifiedChannelUpper ==
    << "M", "O", "D", "I", "F", "I", "E", "D", " ", "C", "H", "A", "N", "N", "E", "L" >>
SuffixBC == << "_", "B", "C" >>
UnsupportedReason == "Unsupported memory area"
EmptyString == << >>

----------------------------------------------------------------------------
(* plc-parser.ts                                                           *)

\* DATA_TYPE_DICTIONARY[key] || 1
DATA_TYPE_DICTIONARY(key) ==
    CASE key = UDINT -> 2
      [] key = WORD -> 1
      [] key = DWORD -> 3
      [] key = INT -> 1
      [] key = REAL -> 4
      [] key = LREAL -> 8
      [] OTHER -> 1

normalizeEAddress(address) ==
    IF startsWith(address, << "E" >>)
    THEN LET numericPart == slice1(address)
         IN  CASE Len(numericPart) = 4 -> << "E", "0" >> \o numericPart
               [] Len(numericPart) = 3 -> << "E", "0", "0" >> \o numericPart
               [] Len(numericPart) = 2 -> << "E", "0", "0", "0" >> \o numericPart
               [] Len(numericPart) = 1 -> << "E", "0", "0", "0", "0" >> \o numericPart
               [] OTHER -> address
    ELSE address

normalizeBooleanAddress(address) ==
    IF ~includes(address, ".")
    THEN address \o << ".", "0", "0" >>
    ELSE LET parts == split(address, ".")
         IN  parts[1] \o << "." >> \o padStart2(parts[2])

getMemoryAreaPrefix(address) ==
    IF Len(address) = 0 THEN << "A" >>
    ELSE IF startsWithDigit(address) THEN << "A" >>
    ELSE << UpperChar(address[1]) >>

\* generateOpcuaName with the PLC number repeated after the suffix
generateOpcuaNameOrdinalLast(address, dataType, bitPosition, isBooleanChannel, plcNumber) ==
    LET memoryPrefix == getMemoryAreaPrefix(address)
        regAddress == IF startsWithDigit(address) THEN address ELSE slice1(address)
    IN  << "P" >> \o numberToString(plcNumber) \o << "_" >> \o memoryPrefix
            \o << "_" >> \o regAddress \o << "_", "W" >> \o numberToString(plcNumber)

\* bitPosition is a string or NoString (undefined); an empty string is falsy too
generateOpcuaName(address, dataType, bitPosition, isBooleanChannel, plcNumber) ==
    LET memoryPrefix == getMemoryAreaPrefix(address)
        regAddress == IF startsWithDigit(address) THEN address ELSE slice1(address)
        head == << "P" >> \o numberToString(plcNumber) \o << "_" >> \o memoryPrefix
                    \o << "_" >> \o regAddress \o << "_" >>
    IN  IF dataType = BOOL
        THEN IF isBooleanChannel
             THEN head \o << "B", "C" >>
             ELSE LET bitNum == IF bitPosition = NoString \/ bitPosition = EmptyString
                                THEN << "0", "0" >> ELSE bitPosition
                  IN  head \o << "B" >> \o bitNum
        ELSE IF dataType = CHANNEL \/ dataType = channelLower
        THEN head \o << "C" >>
        ELSE head \o << "W" >> \o numberToString(DATA_TYPE_DICTIONARY(toUpperCase(dataType)))

isSupportedMemoryArea(address) ==
    IF Len(address) = 0 THEN FALSE
    ELSE IF Len(address) >= 3 /\ address[2] \notin (Digits \cup {"."}) THEN FALSE
    ELSE IF startsWithDigit(address) THEN TRUE
    ELSE address[1] \in {"D", "W", "H", "A", "E", "T", "C"}

\* An AddressMapping as the batch builder and the table create it; an optional
\* field is the empty sequence when absent and a one-element sequence otherwise
NoMetadata == << >>

NoBitList == << >>

Mapping(addr, type, name) ==
    [plc_reg_add |-> addr, data_type |-> type, opcua_reg_add |-> name,
     bit_list |-> NoBitList, metadata |-> NoMetadata]

\* booleanGroups is a Map in insertion order: a sequence of [base, bits]
GroupIndex(groups, base) ==
    IF \E k \in 1..Len(groups) : groups[k].base = base
    THEN CHOOSE k \in 1..Len(groups) : groups[k].base = base
    ELSE 0

\* AddToGroup with a new base put before the bases seen so far
AddToGroupFront(groups, base, entry) ==
    IF GroupIndex(groups, base) = 0
    THEN << [base |-> base, bits |-> << entry >>] >> \o groups
    ELSE [groups EXCEPT ![GroupIndex(groups, base)].bits = Append(@, entry)]

AddToGroup(groups, base, entry) ==
    IF GroupIndex(groups, base) = 0
    THEN Append(groups, [base |-> base, bits |-> << entry >>])
    ELSE [groups EXCEPT ![GroupIndex(groups, base)].bits = Append(@, entry)]

\* One iteration of the loop over csvData (lines 174-236)
ParseRow(acc, row, plcNumber) ==
    IF Len(row) < 4 THEN acc
    ELSE LET data_type == row[2]
             address == row[3]
             description == row[4]
         IN  IF ~isSupportedMemoryArea(address)
             THEN [acc EXCEPT !.skippedAddresses =
                       Append(@, [address |-> address, data_type |-> data_type,
                                  description |-> description,
                                  reason |-> UnsupportedReason])]
             ELSE LET originalAddress == address
                      eAddress == normalizeEAddress(originalAddress)
                  IN  IF data_type = BOOL
                      THEN LET normalizedAddress == normalizeBooleanAddress(eAddress)
                               parts == split(normalizedAddress, ".")
                           IN  [acc EXCEPT !.booleanGroups =
                                   AddToGroup(@, parts[1],
                                       [originalAddress |-> originalAddress,
                                        normalizedAddress |-> normalizedAddress,
                                        bitPosition |-> parts[2],
                                        description |-> description])]
                      ELSE IF data_type = CHANNEL
                      THEN [acc EXCEPT !.otherMappings =
                               Append(@, Mapping(eAddress, CHANNEL,
                                   generateOpcuaName(eAddress, CHANNEL, NoString, FALSE, plcNumber)))]
                      ELSE [acc EXCEPT !.otherMappings =
                               Append(@, Mapping(eAddress, data_type,
                                   generateOpcuaName(eAddress, data_type, NoString, FALSE, plcNumber)))]

\* ParseRows with the loop left at the first unsupported address
RECURSIVE ParseRowsStopping(_, _, _)
ParseRowsStopping(acc, rows, plcNumber) ==
    IF rows = << >> THEN acc
    ELSE IF Len(Head(rows)) >= 4 /\ ~isSupportedMemoryArea(Head(rows)[3])
    THEN ParseRow(acc, Head(rows), plcNumber)
    ELSE ParseRowsStopping(ParseRow(acc, Head(rows), plcNumber), Tail(rows), plcNumber)

RECURSIVE ParseRows(_, _, _)
ParseRows(acc, rows, plcNumber) ==
    IF rows = << >> THEN acc
    ELSE ParseRows(ParseRow(acc, Head(rows), plcNumber), Tail(rows), plcNumber)

\* EmitGroup with the threshold of the grouping moved by one
EmitGroupOffByOne(out, group, plcNumber) ==
    IF Len(group.bits) > 2
    THEN [out EXCEPT
            !.booleanChannelCount = @ + 1,
            !.modifiedChannelAddresses =
                @ \o [k \in 1..Len(group.bits) |-> group.bits[k].originalAddress],
            !.addressMappings =
                Append(@, Mapping(group.base, BOOL,
                    generateOpcuaName(group.base, BOOL, NoString, TRUE, plcNumber)))]
    ELSE LET bit == group.bits[1]
         IN  [out EXCEPT !.addressMappings =
                Append(@, Mapping(bit.normalizedAddress, BOOL,
                    generateOpcuaName(split(bit.normalizedAddress, ".")[1], BOOL,
                                      bit.bitPosition, FALSE, plcNumber)))]

\* One iteration of the loop over booleanGroups (lines 244-277)
EmitGroup(out, group, plcNumber) ==
    IF Len(group.bits) > 1
    THEN [out EXCEPT
            !.booleanChannelCount = @ + 1,
            !.modifiedChannelAddresses =
                @ \o [k \in 1..Len(group.bits) |-> group.bits[k].originalAddress],
            !.addressMappings =
                Append(@, Mapping(group.base, BOOL,
                    generateOpcuaName(group.base, BOOL, NoString, TRUE, plcNumber)))]
    ELSE LET bit == group.bits[1]
         IN  [out EXCEPT !.addressMappings =
                Append(@, Mapping(bit.normalizedAddress, BOOL,
                    generateOpcuaName(split(bit.normalizedAddress, ".")[1], BOOL,
                                      bit.bitPosition, FALSE, plcNumber)))]

RECURSIVE EmitGroups(_, _, _)
EmitGroups(out, groups, plcNumber) ==
    IF groups = << >> THEN out
    ELSE EmitGroups(EmitGroup(out, Head(groups), plcNumber), Tail(groups), plcNumber)

\* parseCSVData that returns the skip list empty
parseCSVDataWithoutSkipped(data, plcNumber) ==
    LET acc == ParseRows([booleanGroups |-> << >>, otherMappings |-> << >>,
                          skippedAddresses |-> << >>], data, plcNumber)
        out == EmitGroups([addressMappings |-> << >>, booleanChannelCount |-> 0,
                           modifiedChannelAddresses |-> << >>],
                          acc.booleanGroups, plcNumber)
        addressMappings == out.addressMappings \o acc.otherMappings
    IN  [addressMappings |-> addressMappings,
         stats |-> [totalRecords |-> Len(data),
                    validRecords |-> Len(addressMappings),
                    skippedRecords |-> 0,
                    booleanChannels |-> out.booleanChannelCount],
         skippedAddresses |-> << >>,
         modifiedChannelAddresses |-> out.modifiedChannelAddresses]

parseCSVData(data, plcNumber) ==
    LET acc == ParseRows([booleanGroups |-> << >>, otherMappings |-> << >>,
                          skippedAddresses |-> << >>], data, plcNumber)
        out == EmitGroups([addressMappings |-> << >>, booleanChannelCount |-> 0,
                           modifiedChannelAddresses |-> << >>],
                          acc.booleanGroups, plcNumber)
        addressMappings == out.addressMappings \o acc.otherMappings
    IN  [addressMappings |-> addressMappings,
         stats |-> [totalRecords |-> Len(data),
                    validRecords |-> Len(addressMappings),
                    skippedRecords |-> Len(acc.skippedAddresses),
                    booleanChannels |-> out.booleanChannelCount],
         skippedAddresses |-> acc.skippedAddresses,
         modifiedChannelAddresses |-> out.modifiedChannelAddresses]

----------------------------------------------------------------------------
(* address-mappings-table.tsx: helpers and derived state                   *)

\* Bit positions shown by the 16-bit grids
BitIndices == 0..15

\* Number of leading mappings that mappingsHash looks at
HashWindow == 10

\* An insertion-ordered JavaScript Set is a sequence without repetitions
SeqToSet(q) == {q[k] : k \in 1..Len(q)}

RECURSIVE Uniq(_)
Uniq(q) ==
    IF q = << >> THEN << >>
    ELSE LET front == Uniq(SubSeq(q, 1, Len(q) - 1))
             x == q[Len(q)]
         IN  IF x \in SeqToSet(front) THEN front ELSE Append(front, x)

RECURSIVE FilterBits(_)
FilterBits(q) ==
    IF q = << >> THEN << >>
    ELSE IF Head(q) >= 0 /\ Head(q) <= 15
         THEN << Head(q) >> \o FilterBits(Tail(q))
         ELSE FilterBits(Tail(q))

RECURSIVE Without(_, _)
Without(q, x) ==
    IF q = << >> THEN << >>
    ELSE IF Head(q) = x THEN Without(Tail(q), x)
    ELSE << Head(q) >> \o Without(Tail(q), x)

getValidPlcNo(plc) == IF plc > 0 THEN plc ELSE 1

isBoolChannel(mapping) ==
    /\ (mapping.data_type = BOOL \/ mapping.data_type = CHANNEL)
    /\ endsWith(mapping.opcua_reg_add, SuffixBC)

isModifiedChannel(mapping) == mapping.data_type = ModifiedChannelType

\* The bits one BOOL entry contributes in the fallback of extractUsedBits
EntryBits(mapping) ==
    IF mapping.bit_list # NoBitList
    THEN FilterBits(mapping.bit_list[1])
    ELSE LET bitPart == splitPart1(mapping.plc_reg_add)
         IN  IF bitPart # NoString /\ bitPart # EmptyString
                /\ parseInt(bitPart) # NaN
                /\ parseInt(bitPart) >= 0 /\ parseInt(bitPart) <= 15
             THEN << parseInt(bitPart) >>
             ELSE << >>

RECURSIVE FallbackBits(_, _)
FallbackBits(list, baseAddress) ==
    IF list = << >> THEN << >>
    ELSE LET mapping == Head(list)
             rest == FallbackBits(Tail(list), baseAddress)
         IN  IF mapping.data_type = BOOL
                /\ startsWith(mapping.plc_reg_add, baseAddress \o << "." >>)
             THEN EntryBits(mapping) \o rest
             ELSE rest

extractUsedBits(list, channelAddress) ==
    LET baseAddress == split(channelAddress, ".")[1]
        found == {k \in 1..Len(list) :
                     /\ list[k].plc_reg_add = baseAddress
                     /\ (isBoolChannel(list[k]) \/ isModifiedChannel(list[k]))}
        channelMapping == list[CHOOSE k \in found : \A j \in found : k <= j]
    IN  IF found # {} /\ channelMapping.bit_list # NoBitList
        THEN FilterBits(channelMapping.bit_list[1])
        ELSE Uniq(FallbackBits(list, baseAddress))

getMemoryAreaFromMapping(mapping) ==
    LET address == mapping.plc_reg_add
        firstChar == IF Len(address) = 0 THEN EmptyString ELSE << UpperChar(address[1]) >>
    IN  IF firstChar = << "I" >> \/ firstChar = << "O" >> \/ startsWithDigit(address)
        THEN << "I", "/", "O" >>
        ELSE firstChar

\* visibleMappings without a search term, on the first page (pageSize is 500)
VisibleIndices(list, areas) ==
    {i \in Indices(list) :
        \/ At(list, i).plc_reg_add = EmptyString
        \/ getMemoryAreaFromMapping(At(list, i)) \in areas}

mappingsHash(list) ==
    << Len(list),
       [k \in 1..(IF Len(list) < HashWindow THEN Len(list) ELSE HashWindow) |->
           << list[k].plc_reg_add, list[k].data_type, list[k].opcua_reg_add >>] >>

\* The body of the channelBitStates memo
ComputeChannelBitStates(list, areas) ==
    LET relevantIndices == VisibleIndices(list, areas)
        dom == {i \in Indices(list) :
                   /\ isBoolChannel(At(list, i))
                   /\ (i \in relevantIndices \/ relevantIndices = {})}
    IN  [i \in dom |-> extractUsedBits(list, At(list, i).plc_reg_add)]

\* useMemo(..., [mappingsHash, visibleMappings.length]) across one re-render
channelBitStatesMemo(memo, oldList, oldAreas, newList, newAreas) ==
    IF \/ mappingsHash(newList) # mappingsHash(oldList)
       \/ Cardinality(VisibleIndices(newList, newAreas))
              # Cardinality(VisibleIndices(oldList, oldAreas))
    THEN ComputeChannelBitStates(newList, newAreas)
    ELSE memo

\* The effect that rebuilds modifiedChannelBits from metadata (lines 654-681)
MetadataBits(meta) ==
    {meta.bit_mappings[key].bit_position : key \in DOMAIN meta.bit_mappings} \cap BitIndices

InitModifiedChannelBits(list) ==
    [i \in {j \in Indices(list) :
               isModifiedChannel(At(list, j)) /\ At(list, j).metadata # NoMetadata}
        |-> MetadataBits(At(list, i).metadata[1])]

\* The effect that selects every visible row while nothing is selected (617-621)
InitSelection(sel, oldList, oldAreas, newList, newAreas) ==
    IF /\ Cardinality(VisibleIndices(newList, newAreas))
              # Cardinality(VisibleIndices(oldList, oldAreas))
       /\ sel = {}
    THEN VisibleIndices(newList, newAreas)
    ELSE sel

bitKey(bit) == << "b", "i", "t", "_" >> \o padStart2(numberToString(bit))

bitAddress(baseAddress, bit) == baseAddress \o << "." >> \o padStart2(numberToString(bit))

----------------------------------------------------------------------------
(* address-mappings-table.tsx: the handlers as functions of the state      *)

\* toggleModifiedChannelBit: the metadata written for the new bit set
ModifiedChannelMetadata(baseAddress, newBits) ==
    [bit_count |-> Cardinality(newBits),
     bit_mappings |->
        [key \in {bitKey(b) : b \in newBits} |->
            LET bit == CHOOSE b \in newBits : bitKey(b) = key
            IN  [address |-> bitAddress(baseAddress, bit),
                 description |-> EmptyString,
                 bit_position |-> bit]]]

\* toggleModifiedChannelBit that also regenerates the identifier of the row
toggleModifiedChannelBitRenaming(list, bitsMap, mappingIndex, bitIndex) ==
    LET currentBits == IF mappingIndex \in DOMAIN bitsMap THEN bitsMap[mappingIndex] ELSE {}
        newBits == IF bitIndex \in currentBits
                   THEN currentBits \ {bitIndex} ELSE currentBits \cup {bitIndex}
    IN  [k \in 1..Len(list) |->
            IF k - 1 = mappingIndex
            THEN [list[k] EXCEPT
                     !.metadata = << ModifiedChannelMetadata(list[k].plc_reg_add, newBits) >>,
                     !.opcua_reg_add =
                         generateOpcuaName(list[k].plc_reg_add, CHANNEL, NoString, FALSE, 1)]
            ELSE list[k]]

toggleModifiedChannelBitList(list, bitsMap, mappingIndex, bitIndex) ==
    LET currentBits == IF mappingIndex \in DOMAIN bitsMap THEN bitsMap[mappingIndex] ELSE {}
        newBits == IF bitIndex \in currentBits
                   THEN currentBits \ {bitIndex} ELSE currentBits \cup {bitIndex}
    IN  [k \in 1..Len(list) |->
            IF k - 1 = mappingIndex
            THEN [list[k] EXCEPT !.metadata =
                     << ModifiedChannelMetadata(list[k].plc_reg_add, newBits) >>]
            ELSE list[k]]

\* toggleBit: the filter that drops the individual BOOL entries of the base
RECURSIVE RemoveIndividualBits(_, _)
RemoveIndividualBits(list, baseAddress) ==
    IF list = << >> THEN << >>
    ELSE LET mapping == Head(list)
             rest == RemoveIndividualBits(Tail(list), baseAddress)
         IN  IF /\ mapping.data_type = BOOL
                /\ startsWith(mapping.plc_reg_add, baseAddress \o << "." >>)
                /\ ~endsWith(mapping.opcua_reg_add, SuffixBC)
             THEN rest
             ELSE << mapping >> \o rest

\* toggleBit that adds the bit without looking whether it is set
toggleBitAlwaysAdd(currentBits, bitNumber) == Append(currentBits, bitNumber)

toggleBitNewBits(currentBits, bitNumber) ==
    IF bitNumber \in SeqToSet(currentBits)
    THEN Without(currentBits, bitNumber)
    ELSE Append(currentBits, bitNumber)

toggleBitEntry(baseAddress, bit, plc) ==
    Mapping(bitAddress(baseAddress, bit), BOOL,
            generateOpcuaName(baseAddress, BOOL, padStart2(numberToString(bit)), FALSE, plc))

toggleBitList(list, bitStates, channelIndex, bitNumber, plc) ==
    LET baseAddress == split(At(list, channelIndex).plc_reg_add, ".")[1]
        currentBits == IF channelIndex \in DOMAIN bitStates
                       THEN bitStates[channelIndex] ELSE << >>
        newBits == toggleBitNewBits(currentBits, bitNumber)
    IN  RemoveIndividualBits(list, baseAddress)
            \o [k \in 1..Len(newBits) |->
                   toggleBitEntry(baseAddress, newBits[k], getValidPlcNo(plc))]

NewMapping == Mapping(EmptyString, WORD, EmptyString)

addMappingList(list) == << NewMapping >> \o list

addMappingSelection(sel) == {i + 1 : i \in sel} \cup {0}

removeMappingList(list, index) ==
    SubSeq(list, 1, index) \o SubSeq(list, index + 2, Len(list))

removeMappingSelection(sel, index) ==
    {i \in sel : i < index} \cup {i - 1 : i \in {j \in sel : j > index}}

\* The callback given to useDebouncedCallback (lines 979-1014)
updatedOpcuaName(plcAddress, dataType, plc) ==
    LET baseAddr == split(plcAddress, ".")[1]
    IN  IF dataType = CHANNEL
        THEN generateOpcuaName(baseAddr, CHANNEL, NoString, FALSE, plc)
        ELSE IF dataType = ModifiedChannelType
        THEN generateOpcuaName(baseAddr, ModifiedChannelUpper, NoString, FALSE, plc)
        ELSE IF dataType = BOOL /\ includes(plcAddress, ".")
        THEN generateOpcuaName(baseAddr, BOOL, splitPart1(plcAddress), FALSE, plc)
        ELSE generateOpcuaName(baseAddr, dataType, NoString, FALSE, plc)

updateOne(mapping, field, value, plc) ==
    LET updatedMapping == [mapping EXCEPT ![field] = value]
        plcAddress == updatedMapping.plc_reg_add
        dataType == updatedMapping.data_type
    IN  IF field \in {"plc_reg_add", "data_type"}
           /\ plcAddress # EmptyString /\ dataType # EmptyString
        THEN [updatedMapping EXCEPT
                 !.opcua_reg_add = updatedOpcuaName(plcAddress, dataType, getValidPlcNo(plc))]
        ELSE updatedMapping

debouncedUpdateMappingList(list, index, field, value, plc) ==
    [k \in 1..Len(list) |->
        IF k - 1 = index THEN updateOne(list[k], field, value, plc) ELSE list[k]]

----------------------------------------------------------------------------
(* PlcConfigBuilder                                                        *)

\* The effect that regenerates every identifier when plcNo changes (62-91)
regenerateOne(mapping, plcNumber) ==
    LET baseAddr == split(mapping.plc_reg_add, ".")[1]
        newOpcuaName ==
            IF endsWith(mapping.opcua_reg_add, SuffixBC)
            THEN generateOpcuaName(baseAddr, BOOL, NoString, TRUE, plcNumber)
            ELSE IF mapping.data_type = CHANNEL \/ mapping.data_type = ModifiedChannelType
            THEN generateOpcuaName(baseAddr, CHANNEL, NoString, FALSE, plcNumber)
            ELSE IF mapping.data_type = BOOL /\ includes(mapping.plc_reg_add, ".")
            THEN generateOpcuaName(baseAddr, BOOL, splitPart1(mapping.plc_reg_add),
                                   FALSE, plcNumber)
            ELSE generateOpcuaName(baseAddr, mapping.data_type, NoString, FALSE, plcNumber)
    IN  [mapping EXCEPT !.opcua_reg_add = newOpcuaName]

regenerateNames(list, plcNumber) ==
    [k \in 1..Len(list) |-> regenerateOne(list[k], plcNumber)]

\* The key of a record without its identifier
dedupeKeyNameOnly(name, opcuaName) == name \o << "|" >>

dedupeKey(name, opcuaName) == name \o << "|" >> \o opcuaName

RECURSIVE dedupeLoop(_, _, _, _)
dedupeLoop(list, name, seen, deduplicated) ==
    IF list = << >> THEN deduplicated
    ELSE LET key == dedupeKey(name, Head(list).opcua_reg_add)
         IN  IF key \notin seen
             THEN dedupeLoop(Tail(list), name, seen \cup {key},
                             Append(deduplicated, Head(list)))
             ELSE dedupeLoop(Tail(list), name, seen, deduplicated)

\* Deduplication that keeps the last record of an identifier
RECURSIVE dedupeKeepLast(_, _)
dedupeKeepLast(list, name) ==
    IF list = << >> THEN << >>
    ELSE IF \E k \in 2..Len(list) : list[k].opcua_reg_add = Head(list).opcua_reg_add
         THEN dedupeKeepLast(Tail(list), name)
         ELSE << Head(list) >> \o dedupeKeepLast(Tail(list), name)

dedupeByOpcuaName(list, name) == dedupeLoop(list, name, {}, << >>)

exportRecord(mapping) ==
    [plc_reg_add |-> mapping.plc_reg_add,
     data_type |-> IF mapping.data_type = ModifiedChannelType
                   THEN channelLower ELSE toLowerCase(mapping.data_type),
     opcua_reg_add |-> mapping.opcua_reg_add,
     description |-> EmptyString,
     Memory_Area |-> getMemoryAreaFromMapping(mapping),
     metadata |-> mapping.metadata]

\* exportFilter without the explicit selection
exportFilterOfAreasOnly(list, areas, sel, i) ==
    getMemoryAreaFromMapping(At(list, i)) \in areas

exportFilter(list, areas, sel, i) ==
    /\ getMemoryAreaFromMapping(At(list, i)) \in areas
    /\ (sel = {} \/ i \in sel)

RECURSIVE filteredMappings(_, _, _, _)
filteredMappings(list, areas, sel, i) ==
    IF i >= Len(list) THEN << >>
    ELSE (IF exportFilter(list, areas, sel, i)
          THEN << exportRecord(At(list, i)) >> ELSE << >>)
         \o filteredMappings(list, areas, sel, i + 1)

generateJson(list, areas, sel, name) ==
    dedupeByOpcuaName(filteredMappings(list, areas, sel, 0), name)

\* An export that stores the deduplicated list: the rows that are not the first
\* of their identifier are dropped from addressMappings
addressMappingsDeduplicated(list, name) == dedupeByOpcuaName(list, name)

\* generateJson reads addressMappings and never calls setAddressMappings
addressMappingsAfterExport(list, name) == list

----------------------------------------------------------------------------
(* Bounds and input alphabets                                              *)

MaxMappings == 3

MaxPlcNo == 2

\* Operations the user gets done while one debounced call waits for its timer
MaxInterleaved == 1

\* Calls of updateMapping in a session
MaxEdits == 2

ToggleBits == {3, 5}

D100 == << "D", "1", "0", "0" >>
D200 == << "D", "2", "0", "0" >>

Row(type, address) == << EmptyString, type, address, EmptyString >>

\* Imported files of the interactive sessions
SampleGrids ==
    { << Row(BOOL, D100 \o << ".", "3" >>), Row(BOOL, D100 \o << ".", "5" >>),
         Row(ModifiedChannelType, D100) >>,
      << Row(BOOL, D200 \o << ".", "1" >>), Row(UDINT, D200) >> }

\* Values typed into the address, type and identifier cells
EditAddresses == { EmptyString, D100 }
EditTypes == { ModifiedChannelType }
EditNames == { << "X" >> }

EditValues(field) ==
    CASE field = "plc_reg_add" -> EditAddresses
      [] field = "data_type" -> EditTypes
      [] field = "opcua_reg_add" -> EditNames

EditFields == {"plc_reg_add", "data_type", "opcua_reg_add"}

----------------------------------------------------------------------------
(* The interactive session                                                 *)

NoArgs == << >>

NoReturn == << >>

NoCall == << >>
NoResult == << >>
NoOp == [op |-> "init", index |-> -1, bit |-> -1]
Op(name, index, bit) == [op |-> name, index |-> index, bit |-> bit]

DefaultMappings ==
    << Mapping(<< "2", ".", "0", "1" >>, BOOL,
               << "B", "O", "O", "L", "_", "V", "A", "R", "0", "1" >>),
       Mapping(<< "C", "0", "0", "0", "1" >>, WORD,
               << "I", "N", "T", "_", "V", "A", "R", "0", "1" >>) >>

DefaultAreas ==
    { << "I", "/", "O" >>, << "A" >>, << "C" >>, << "D" >>, << "E" >>, << "T" >>, << "H" >> }

DefaultPlcName == << "P", "L", "C", "1" >>

\* State after the first render: the plcNo effect has regenerated the identifiers
\* and the table has selected every visible row
Init ==
    /\ mappings = regenerateNames(DefaultMappings, 1)
    /\ plcNo = 1
    /\ parseResult = NoResult
    /\ selectedMemoryAreas = DefaultAreas
    /\ selectedRegisters = VisibleIndices(DefaultMappings, DefaultAreas)
    /\ expandedBoolChannels = {}
    /\ modifiedChannelBits = InitModifiedChannelBits(DefaultMappings)
    /\ channelBitStates =
           ComputeChannelBitStates(regenerateNames(DefaultMappings, 1), DefaultAreas)
    /\ pending = NoCall
    /\ plcName = DefaultPlcName
    /\ exported = << >>
    /\ csvData = << >>
    /\ dedupeIn = << >>
    /\ dedupeOut = << >>
    /\ edits = 0
    /\ callArgs = NoArgs
    /\ callResult = NoReturn
    /\ last = NoOp

\* The re-render that follows a change of the mapping list: the effects and memos
Rerender(newList, newSel) ==
    /\ mappings' = newList
    /\ selectedRegisters' =
           InitSelection(newSel, mappings, selectedMemoryAreas, newList, selectedMemoryAreas)
    /\ modifiedChannelBits' = InitModifiedChannelBits(newList)
    /\ channelBitStates' =
           channelBitStatesMemo(channelBitStates, mappings, selectedMemoryAreas,
                                newList, selectedMemoryAreas)

Visible(i) == i \in VisibleIndices(mappings, selectedMemoryAreas)

\* The plcNo prop of the table: the PLC number of the configuration form
TablePlcNo == plcNo

\* exported holds the JSON produced by the step, and nothing after another step
NoExport == << >>

\* Another operation is accepted while a debounced call may be waiting
Aged == IF pending = NoCall THEN NoCall ELSE << [pending[1] EXCEPT !.age = @ + 1] >>

MayInterleave == IF pending = NoCall THEN TRUE ELSE pending[1].age < MaxInterleaved

\* What every operation other than the debouncer leaves alone
Step(name, index, bit) ==
    /\ MayInterleave
    /\ pending' = Aged
    /\ last' = Op(name, index, bit)
    /\ UNCHANGED << csvData, callArgs,
                    callResult, parseResult, dedupeIn, dedupeOut, plcName,
                    selectedMemoryAreas, edits >>

\* FileUploadCard: Papa.parse's complete callback followed by handleImport, which
\* hands the parsed list to PlcConfigBuilder.handleFileProcessed
ImportFile ==
    \E grid \in SampleGrids :
        /\ Rerender(parseCSVData(grid, plcNo).addressMappings, selectedRegisters)
        /\ exported' = NoExport
        /\ Step("importFile", -1, -1)
        /\ UNCHANGED << plcNo, expandedBoolChannels >>

SetPlcNo ==
    \E n \in 1..MaxPlcNo :
        /\ n # plcNo
        /\ plcNo' = n
        /\ Rerender(regenerateNames(mappings, n), selectedRegisters)
        /\ exported' = NoExport
        /\ Step("setPlcNo", -1, -1)
        /\ UNCHANGED expandedBoolChannels

ToggleRegisterSelection ==
    \E i \in Indices(mappings) :
        /\ Visible(i)
        /\ selectedRegisters' =
               IF i \in selectedRegisters
               THEN selectedRegisters \ {i} ELSE selectedRegisters \cup {i}
        /\ exported' = NoExport
        /\ Step("toggleRegisterSelection", i, -1)
        /\ UNCHANGED << mappings, plcNo, expandedBoolChannels, modifiedChannelBits,
                        channelBitStates >>

ToggleBoolChannelExpansion ==
    \E i \in Indices(mappings) :
        /\ Visible(i)
        /\ isBoolChannel(At(mappings, i)) \/ isModifiedChannel(At(mappings, i))
        /\ expandedBoolChannels' =
               IF i \in expandedBoolChannels
               THEN expandedBoolChannels \ {i} ELSE expandedBoolChannels \cup {i}
        /\ exported' = NoExport
        /\ Step("toggleBoolChannelExpansion", i, -1)
        /\ UNCHANGED << mappings, plcNo, selectedRegisters, modifiedChannelBits,
                        channelBitStates >>

ToggleModifiedChannelBit ==
    \E i \in Indices(mappings), b \in ToggleBits :
        /\ Visible(i)
        /\ isModifiedChannel(At(mappings, i))
        /\ i \in expandedBoolChannels
        /\ Rerender(toggleModifiedChannelBitList(mappings, modifiedChannelBits, i, b),
                    selectedRegisters)
        /\ exported' = NoExport
        /\ Step("toggleModifiedChannelBit", i, b)
        /\ UNCHANGED << plcNo, expandedBoolChannels >>

ToggleBit ==
    \E i \in Indices(mappings), b \in ToggleBits :
        /\ Visible(i)
        /\ isBoolChannel(At(mappings, i))
        /\ i \in expandedBoolChannels
        /\ Len(toggleBitList(mappings, channelBitStates, i, b, TablePlcNo)) <= MaxMappings
        /\ Rerender(toggleBitList(mappings, channelBitStates, i, b, TablePlcNo),
                    selectedRegisters)
        /\ exported' = NoExport
        /\ Step("toggleBit", i, b)
        /\ UNCHANGED << plcNo, expandedBoolChannels >>

AddMapping ==
    /\ Len(mappings) < MaxMappings
    /\ \A i \in selectedRegisters : i + 1 < MaxMappings
    /\ Rerender(addMappingList(mappings), addMappingSelection(selectedRegisters))
    /\ exported' = NoExport
    /\ Step("addMapping", 0, -1)
    /\ UNCHANGED << plcNo, expandedBoolChannels >>

RemoveMapping ==
    \E i \in Indices(mappings) :
        /\ Visible(i)
        /\ Rerender(removeMappingList(mappings, i),
                    removeMappingSelection(selectedRegisters, i))
        /\ exported' = NoExport
        /\ Step("removeMapping", i, -1)
        /\ UNCHANGED << plcNo, expandedBoolChannels >>

\* updateMapping: the call is handed to the debouncer, which keeps the last call only
UpdateMapping ==
    \E i \in Indices(mappings), field \in EditFields :
        \E value \in EditValues(field) :
            /\ Visible(i)
            /\ edits < MaxEdits
            /\ edits' = edits + 1
            /\ pending' = << [index |-> i, field |-> field, value |-> value,
                              mappings |-> mappings, plcNo |-> TablePlcNo, age |-> 0] >>
            /\ last' = Op("updateMapping", i, -1)
            /\ exported' = NoExport
            /\ UNCHANGED << mappings, plcNo, selectedRegisters, expandedBoolChannels,
                            modifiedChannelBits, channelBitStates, csvData, callArgs,
                    callResult, parseResult,
                            dedupeIn, dedupeOut, plcName, selectedMemoryAreas >>

\* The timer of the debouncer fires: the callback runs with the list and the PLC
\* number of its closure, which is that of the call or of the latest render
DebounceFire ==
    /\ pending # NoCall
    /\ \E closure \in { [mappings |-> pending[1].mappings, plcNo |-> pending[1].plcNo],
                        [mappings |-> mappings, plcNo |-> TablePlcNo] } :
           Rerender(debouncedUpdateMappingList(closure.mappings, pending[1].index,
                        pending[1].field, pending[1].value, closure.plcNo),
                    selectedRegisters)
    /\ pending' = NoCall
    /\ last' = Op("debouncedUpdateMapping", pending[1].index, -1)
    /\ exported' = NoExport
    /\ UNCHANGED << plcNo, expandedBoolChannels, csvData, callArgs,
                    callResult, parseResult, dedupeIn,
                    dedupeOut, plcName, selectedMemoryAreas, edits >>

\* handleExportJson / the preview: the JSON of the current list and selection
GenerateJson ==
    /\ exported' = generateJson(mappings, selectedMemoryAreas, selectedRegisters, plcName)
    /\ mappings' = addressMappingsAfterExport(mappings, plcName)
    /\ Step("generateJson", -1, -1)
    /\ UNCHANGED << plcNo, selectedRegisters, expandedBoolChannels,
                    modifiedChannelBits, channelBitStates >>

Next ==
    \/ ImportFile
    \/ SetPlcNo
    \/ ToggleRegisterSelection
    \/ ToggleBoolChannelExpansion
    \/ ToggleModifiedChannelBit
    \/ ToggleBit
    \/ AddMapping
    \/ RemoveMapping
    \/ UpdateMapping
    \/ DebounceFire
    \/ GenerateJson

\* The complete session; its properties are checked on the sessions below, which
\* keep the operations a property depends on
Spec == Init /\ [][Next]_vars

\* The session of imports and bit toggles
NextToggle ==
    \/ ImportFile
    \/ SetPlcNo
    \/ ToggleBoolChannelExpansion
    \/ ToggleModifiedChannelBit
    \/ ToggleBit
    \/ AddMapping
    \/ RemoveMapping

SpecToggle == Init /\ [][NextToggle]_vars

\* The session of row edits
NextEdit ==
    \/ ImportFile
    \/ ToggleBoolChannelExpansion
    \/ ToggleModifiedChannelBit
    \/ RemoveMapping
    \/ UpdateMapping
    \/ DebounceFire

SpecEdit == Init /\ [][NextEdit]_vars

\* The session of exports: identifiers are typed in, rows are selected
NextExport ==
    \/ ImportFile
    \/ ToggleRegisterSelection
    \/ UpdateMapping
    \/ DebounceFire
    \/ GenerateJson

SpecExport == Init /\ [][NextExport]_vars


----------------------------------------------------------------------------
(* The batch builder on its own: a grid is parsed by the upload card       *)

\* Rows of a file, and its cells
MaxRows == 3

ShortRow == << EmptyString, BOOL, D100 \o << ".", "7" >> >>

ParseRowAlphabet ==
    { Row(BOOL, D100 \o << ".", "1" >>),
      Row(BOOL, D100 \o << ".", "0", "3" >>),
      Row(BOOL, D100),
      Row(BOOL, << "E", "9", "9", ".", "1" >>),
      Row(BOOL, << "E", "0", "9", "9", ".", "2" >>),
      Row(BOOL, << "1", "1", "0", "0" >>),
      Row(WORD, D100),
      Row(CHANNEL, << "W", "5" >>),
      Row(BOOL, << "C", "F", "1", "0", ".", "1" >>),
      Row(BOOL, << "E", "9", "9", "9", ".", "1" >>),
      Row(BOOL, << "E", "9", "9", "9", ".", "3" >>),
      Row(WORD, << "C", "F", "1", "0" >>),
      ShortRow }

RECURSIVE SeqsUpTo(_, _)
SeqsUpTo(S, n) ==
    IF n = 0 THEN { << >> }
    ELSE LET shorter == SeqsUpTo(S, n - 1)
         IN  shorter \cup { Append(q, x) : q \in shorter, x \in S }

InitParse ==
    /\ csvData \in SeqsUpTo(ParseRowAlphabet, MaxRows)
    /\ plcNo \in 1..MaxPlcNo
    /\ parseResult = NoResult
    /\ mappings = << >>
    /\ selectedMemoryAreas = DefaultAreas
    /\ selectedRegisters = {}
    /\ expandedBoolChannels = {}
    /\ modifiedChannelBits = << >>
    /\ channelBitStates = << >>
    /\ pending = NoCall
    /\ plcName = DefaultPlcName
    /\ exported = NoExport
    /\ dedupeIn = << >>
    /\ dedupeOut = << >>
    /\ edits = 0
    /\ callArgs = NoArgs
    /\ callResult = NoReturn
    /\ last = NoOp

\* Papa.parse's complete callback: the grid is parsed with the PLC number of the card
ParseFile ==
    /\ parseResult = NoResult
    /\ parseResult' = << parseCSVData(csvData, plcNo) >>
    /\ last' = Op("parseCSVData", -1, -1)
    /\ UNCHANGED << mappings, plcNo, selectedMemoryAreas, selectedRegisters,
                    expandedBoolChannels, modifiedChannelBits, channelBitStates, pending,
                    plcName, exported, csvData, callArgs,
                    callResult, dedupeIn, dedupeOut, edits >>

NextParse == ParseFile

SpecParse == InitParse /\ [][NextParse]_vars

----------------------------------------------------------------------------
(* The deduplication of export records on its own                          *)

MaxRecords == 3

ExportRecord(address, name) ==
    [plc_reg_add |-> address, data_type |-> toLowerCase(WORD), opcua_reg_add |-> name,
     description |-> EmptyString, Memory_Area |-> << "D" >>, metadata |-> NoMetadata]

RecordAlphabet ==
    { ExportRecord(a, n) : a \in { D100, D200 },
                           n \in { EmptyString, << "A" >>, << "A", "|" >> } }

PlcNames == { DefaultPlcName, << "P", "|" >> }

NoOutput == << >>

InitDedupe ==
    /\ dedupeIn \in SeqsUpTo(RecordAlphabet, MaxRecords)
    /\ plcName \in PlcNames
    /\ dedupeOut = NoOutput
    /\ csvData = << >>
    /\ plcNo = 1
    /\ parseResult = NoResult
    /\ mappings = << >>
    /\ selectedMemoryAreas = DefaultAreas
    /\ selectedRegisters = {}
    /\ expandedBoolChannels = {}
    /\ modifiedChannelBits = << >>
    /\ channelBitStates = << >>
    /\ pending = NoCall
    /\ exported = NoExport
    /\ edits = 0
    /\ callArgs = NoArgs
    /\ callResult = NoReturn
    /\ last = NoOp

\* generateJson's call of dedupeByOpcuaName on the projected records
Dedupe ==
    /\ dedupeOut = NoOutput
    /\ dedupeOut' = << dedupeByOpcuaName(dedupeIn, plcName) >>
    /\ last' = Op("dedupeByOpcuaName", -1, -1)
    /\ UNCHANGED << mappings, plcNo, parseResult, selectedMemoryAreas, selectedRegisters,
                    expandedBoolChannels, modifiedChannelBits, channelBitStates, pending,
                    plcName, exported, csvData, callArgs,
                    callResult, dedupeIn, edits >>

NextDedupe == Dedupe

SpecDedupe == InitDedupe /\ [][NextDedupe]_vars


----------------------------------------------------------------------------
(* The exported functions of plc-parser.ts on their own                    *)

AddressAlphabet ==
    { EmptyString, D100, << "d", "1", "0", "0" >>, << "W", "5" >>, << "Z", "9" >>,
      << "1", "1", "0", "0" >>, << "1", "1", "0", "0", ".", "1" >>,
      << "1", "1", "0", "0", ".", "1", "0" >>, D100 \o << "." >>,
      << "E", "1" >>, << "E", "1", "2" >>, << "E", "1", "2", "3" >>,
      << "E", "1", "2", "3", "4" >>, << "E", "1", "2", "3", "4", "5" >>,
      << "E", "9", "9", "9", ".", "1" >>,
      << "C", "F", "1", "0" >>, << "C", "F" >>, << "D", "_", "1" >>,
      << "1", "A" >>, << "1", "A", "B" >> }

TypeAlphabet ==
    { BOOL, << "b", "o", "o", "l" >>, CHANNEL, channelLower,
      << "C", "h", "a", "n", "n", "e", "l" >>, WORD, << "w", "o", "r", "d" >>,
      INT, UDINT, DWORD, REAL, << "l", "r", "e", "a", "l" >>,
      << "S", "T", "R", "I", "N", "G" >>, ModifiedChannelUpper }

BitAlphabet == { NoString, EmptyString, << "5" >>, << "0", "5" >>, << "1", "5" >> }

OrdinalAlphabet == { 1, 2, 10 }

GenerateArgs ==
    [fn : {"generateOpcuaName"}, address : AddressAlphabet, dataType : TypeAlphabet,
     bitPosition : BitAlphabet, isBooleanChannel : BOOLEAN, plcNumber : OrdinalAlphabet]

AddressArgs ==
    [fn : {"normalizeEAddress", "normalizeBooleanAddress", "isSupportedMemoryArea"},
     address : AddressAlphabet]

InitFunctions ==
    /\ callArgs \in { << a >> : a \in GenerateArgs \cup AddressArgs }
    /\ callResult = NoReturn
    /\ csvData = << >>
    /\ plcNo = 1
    /\ parseResult = NoResult
    /\ mappings = << >>
    /\ selectedMemoryAreas = DefaultAreas
    /\ selectedRegisters = {}
    /\ expandedBoolChannels = {}
    /\ modifiedChannelBits = << >>
    /\ channelBitStates = << >>
    /\ pending = NoCall
    /\ plcName = DefaultPlcName
    /\ exported = NoExport
    /\ dedupeIn = << >>
    /\ dedupeOut = << >>
    /\ edits = 0
    /\ last = NoOp

Return(fn, value) ==
    /\ callResult = NoReturn
    /\ callResult' = << value >>
    /\ last' = Op(fn, -1, -1)
    /\ UNCHANGED << mappings, plcNo, parseResult, selectedMemoryAreas, selectedRegisters,
                    expandedBoolChannels, modifiedChannelBits, channelBitStates, pending,
                    plcName, exported, csvData, dedupeIn, dedupeOut, callArgs, edits >>

CallGenerateOpcuaName ==
    /\ callArgs[1].fn = "generateOpcuaName"
    /\ Return("generateOpcuaName",
              generateOpcuaName(callArgs[1].address, callArgs[1].dataType,
                                callArgs[1].bitPosition, callArgs[1].isBooleanChannel,
                                callArgs[1].plcNumber))

CallNormalizeEAddress ==
    /\ callArgs[1].fn = "normalizeEAddress"
    /\ Return("normalizeEAddress", normalizeEAddress(callArgs[1].address))

CallNormalizeBooleanAddress ==
    /\ callArgs[1].fn = "normalizeBooleanAddress"
    /\ Return("normalizeBooleanAddress", normalizeBooleanAddress(callArgs[1].address))

CallIsSupportedMemoryArea ==
    /\ callArgs[1].fn = "isSupportedMemoryArea"
    /\ Return("isSupportedMemoryArea", isSupportedMemoryArea(callArgs[1].address))

NextFunctions ==
    \/ CallGenerateOpcuaName
    \/ CallNormalizeEAddress
    \/ CallNormalizeBooleanAddress
    \/ CallIsSupportedMemoryArea

SpecFunctions == InitFunctions /\ [][NextFunctions]_vars


----------------------------------------------------------------------------
(* Properties                                                              *)

BaseOf(address) == split(address, ".")[1]

TwoDigits(bit) ==
    IF bit < 10 THEN << "0", DigitChar(bit) >> ELSE << "1", DigitChar(bit - 10) >>

\* The rows of a list that are individual boolean mappings of a base address
IndividualAt(list, base) ==
    {k \in 1..Len(list) :
        /\ list[k].data_type = BOOL
        /\ startsWith(list[k].plc_reg_add, base \o << "." >>)}

\* The bit positions these rows stand for
IndividualBits(list, base) ==
    {parseInt(splitPart1(list[k].plc_reg_add)) : k \in IndividualAt(list, base)}
        \cap BitIndices

ChannelsAt(list, base) ==
    {k \in 1..Len(list) : isBoolChannel(list[k]) /\ BaseOf(list[k].plc_reg_add) = base}

Flip(bits, bit) == IF bit \in bits THEN bits \ {bit} ELSE bits \cup {bit}

\* The records of a grid that the batch builder groups by base address
IsBoolRecord(row) ==
    /\ Len(row) >= 4
    /\ isSupportedMemoryArea(row[3])
    /\ row[2] = BOOL

NormalizedOf(row) == normalizeBooleanAddress(normalizeEAddress(row[3]))

BoolRecords(data) == {k \in 1..Len(data) : IsBoolRecord(data[k])}

SameBase(data, k) ==
    {j \in BoolRecords(data) :
        BaseOf(NormalizedOf(data[j])) = BaseOf(NormalizedOf(data[k]))}

\* C1: for every parsed grid and every base address of its BOOL records, the
\* returned list holds exactly one BOOL mapping of that base: the channel mapping
\* (bare base, identifier ending _BC) when two or more records share the base, the
\* individual mapping (base.bit, no channel identifier) when one record has it.
C1_GroupsBecomeChannels ==
    parseResult # NoResult =>
        LET out == parseResult[1].addressMappings
            BoolsAt(base) ==
                {j \in 1..Len(out) :
                    out[j].data_type = BOOL /\ BaseOf(out[j].plc_reg_add) = base}
        IN  \A k \in BoolRecords(csvData) :
                LET base == BaseOf(NormalizedOf(csvData[k]))
                IN  \E j \in BoolsAt(base) :
                        /\ BoolsAt(base) = {j}
                        /\ IF Cardinality(SameBase(csvData, k)) >= 2
                           THEN /\ out[j].plc_reg_add = base
                                /\ endsWith(out[j].opcua_reg_add, SuffixBC)
                           ELSE /\ out[j].plc_reg_add = NormalizedOf(csvData[k])
                                /\ includes(out[j].plc_reg_add, ".")
                                /\ ~endsWith(out[j].opcua_reg_add, SuffixBC)

\* A parsed grid with a base shared by two BOOL records and a base of one record
C1_Witness ==
    /\ parseResult # NoResult
    /\ \E k, j \in BoolRecords(csvData) :
           /\ Cardinality(SameBase(csvData, k)) = 2
           /\ Cardinality(SameBase(csvData, j)) = 1

C3_SingleBitHasNoChannel ==
    [][last'.op = "toggleBit" =>
          LET base == BaseOf(At(mappings, last'.index).plc_reg_add)
          IN  (/\ Cardinality(IndividualBits(mappings, base)) >= 2
               /\ Cardinality(IndividualBits(mappings', base)) < 2)
                  => ChannelsAt(mappings', base) = {}
      ]_vars

ClaimedBits(mapping) ==
    IF mapping.metadata = NoMetadata THEN {} ELSE MetadataBits(mapping.metadata[1])

\* C4: in every list, two modified-channel mappings of one base address claim no
\* bit in common, and two boolean-channel mappings of one base address claim none.
C4_BitsClaimedOnce ==
    \A j, k \in 1..Len(mappings) :
        (j < k /\ BaseOf(mappings[j].plc_reg_add) = BaseOf(mappings[k].plc_reg_add)) =>
            /\ (isModifiedChannel(mappings[j]) /\ isModifiedChannel(mappings[k]))
                   => ClaimedBits(mappings[j]) \cap ClaimedBits(mappings[k]) = {}
            /\ (isBoolChannel(mappings[j]) /\ isBoolChannel(mappings[k]))
                   => IndividualBits(mappings, BaseOf(mappings[j].plc_reg_add)) = {}

Identifiers(list) == {list[k].opcua_reg_add : k \in 1..Len(list)}

FirstIndex(list, id) ==
    CHOOSE k \in 1..Len(list) :
        /\ list[k].opcua_reg_add = id
        /\ \A j \in 1..(k - 1) : list[j].opcua_reg_add # id

PairwiseDistinct(list) ==
    \A j, k \in 1..Len(list) : j # k => list[j].opcua_reg_add # list[k].opcua_reg_add

\* C5: the result of dedupeByOpcuaName has pairwise distinct identifiers, the same
\* identifiers as its input, and is the input's records that are the first of
\* their identifier, in the input's order.
C5_DedupeKeepsFirst ==
    dedupeOut # NoOutput =>
        LET out == dedupeOut[1]
        IN  /\ PairwiseDistinct(out)
            /\ Identifiers(out) = Identifiers(dedupeIn)
            /\ \A j \in 1..Len(out) :
                   out[j] = dedupeIn[FirstIndex(dedupeIn, out[j].opcua_reg_add)]
            /\ \A j, k \in 1..Len(out) :
                   j < k => FirstIndex(dedupeIn, out[j].opcua_reg_add)
                                < FirstIndex(dedupeIn, out[k].opcua_reg_add)

\* Three records were deduplicated to two: the third repeated the identifier of
\* the first at another address
C5_Witness ==
    /\ dedupeOut # NoOutput
    /\ Len(dedupeIn) = 3
    /\ Len(dedupeOut[1]) = 2
    /\ dedupeIn[1].opcua_reg_add = dedupeIn[3].opcua_reg_add
    /\ dedupeIn[1] # dedupeIn[3]

\* C6: deduplicating the result of a deduplication changes nothing, and a list of
\* pairwise distinct identifiers is returned as it is.
C6_DedupeIdempotent ==
    dedupeOut # NoOutput =>
        /\ dedupeByOpcuaName(dedupeOut[1], plcName) = dedupeOut[1]
        /\ PairwiseDistinct(dedupeIn) => dedupeOut[1] = dedupeIn

\* A list of three records with distinct identifiers was deduplicated
C6_Witness ==
    /\ dedupeOut # NoOutput
    /\ Len(dedupeIn) = 3
    /\ PairwiseDistinct(dedupeIn)
    /\ dedupeIn[1].plc_reg_add = dedupeIn[2].plc_reg_add

\* The identifier the generator gives a mapping of this address and type
GeneratedName(address, dataType, plc) ==
    generateOpcuaName(BaseOf(address), dataType,
                      IF includes(address, ".") THEN splitPart1(address) ELSE NoString,
                      FALSE, plc)

\* C7: when the debounced edit of an address or a type is applied with nothing
\* accepted in between, the edited mapping has the new value and the identifier
\* generated for its address, type, bit and the current PLC number, and every
\* other mapping is as before.
C7_EditRegeneratesIdentifier ==
    [][(/\ last'.op = "debouncedUpdateMapping"
        /\ pending[1].field \in {"plc_reg_add", "data_type"}
        /\ pending[1].age = 0
        /\ pending[1].index \in Indices(mappings)) =>
          LET i == pending[1].index
              M == At(mappings', i)
          IN  /\ Len(mappings') = Len(mappings)
              /\ M[pending[1].field] = pending[1].value
              /\ M.opcua_reg_add = GeneratedName(M.plc_reg_add, M.data_type, plcNo)
              /\ \A k \in Indices(mappings) \ {i} : At(mappings', k) = At(mappings, k)
      ]_vars

\* C8: an accepted field update stays pending until it is applied, unless an update
\* of the same cell replaces it; and it is applied to the list as it stands then,
\* on the row it was made for.
C8_EditsAppliedSerially ==
    [][/\ (pending # NoCall /\ last'.op = "updateMapping") =>
              /\ pending'[1].index = pending[1].index
              /\ pending'[1].field = pending[1].field
       /\ last'.op = "debouncedUpdateMapping" =>
              /\ mappings' = debouncedUpdateMappingList(mappings, pending[1].index,
                                 pending[1].field, pending[1].value, plcNo)
              /\ pending[1].index \in Indices(mappings)
              /\ At(mappings, pending[1].index)
                     = At(pending[1].mappings, pending[1].index)
      ]_vars

ShiftAfterRemove(refs, index) ==
    {i \in refs : i < index} \cup {i - 1 : i \in {j \in refs : j > index}}

\* C9: removeMapping(i) leaves the list without its element i, and the selection,
\* the expanded rows and the keys of the two bit-state maps are the previous ones
\* with i dropped and the indices above i decremented.
C9_RemoveShiftsReferences ==
    [][last'.op = "removeMapping" =>
          LET i == last'.index
          IN  /\ mappings' = SubSeq(mappings, 1, i) \o SubSeq(mappings, i + 2, Len(mappings))
              /\ selectedRegisters' = ShiftAfterRemove(selectedRegisters, i)
              /\ expandedBoolChannels' = ShiftAfterRemove(expandedBoolChannels, i)
              /\ DOMAIN modifiedChannelBits' = ShiftAfterRemove(DOMAIN modifiedChannelBits, i)
              /\ DOMAIN channelBitStates' = ShiftAfterRemove(DOMAIN channelBitStates, i)
      ]_vars

\* C10: toggleModifiedChannelBit(i, b) keeps the length of the list, every mapping
\* other than i, and the address, type, identifier and bit_list of mapping i; the
\* bits of its metadata are the previous ones with b flipped.
C10_ModifiedToggleFrame ==
    [][last'.op = "toggleModifiedChannelBit" =>
          /\ Len(mappings') = Len(mappings)
          /\ \A i \in Indices(mappings) :
                 IF i = last'.index
                 THEN /\ At(mappings', i).plc_reg_add = At(mappings, i).plc_reg_add
                      /\ At(mappings', i).data_type = At(mappings, i).data_type
                      /\ At(mappings', i).opcua_reg_add = At(mappings, i).opcua_reg_add
                      /\ At(mappings', i).bit_list = At(mappings, i).bit_list
                      /\ ClaimedBits(At(mappings', i))
                             = Flip(ClaimedBits(At(mappings, i)), last'.bit)
                 ELSE At(mappings', i) = At(mappings, i)
      ]_vars

\* A bit of a modified channel has just been set while a boolean channel and an
\* individual boolean mapping of the same base address are in the list
C10_Witness ==
    /\ last.op = "toggleModifiedChannelBit"
    /\ last.index \in Indices(mappings)
    /\ isModifiedChannel(At(mappings, last.index))
    /\ last.bit \in ClaimedBits(At(mappings, last.index))
    /\ ChannelsAt(mappings, BaseOf(At(mappings, last.index).plc_reg_add)) # {}
    /\ IndividualAt(mappings, BaseOf(At(mappings, last.index).plc_reg_add)) # {}

\* The records of a grid whose raw address is not supported
IsUnsupportedRecord(row) == Len(row) >= 4 /\ ~isSupportedMemoryArea(row[3])

WithoutUnsupported(data) == SelectSeq(data, LAMBDA row : ~IsUnsupportedRecord(row))

SkipEntry(row, reason) ==
    [address |-> row[3], data_type |-> row[2], description |-> row[4], reason |-> reason]

RECURSIVE SkipEntries(_, _)
SkipEntries(data, reason) ==
    IF data = << >> THEN << >>
    ELSE IF IsUnsupportedRecord(Head(data))
    THEN << SkipEntry(Head(data), reason) >> \o SkipEntries(Tail(data), reason)
    ELSE SkipEntries(Tail(data), reason)

\* The skip list holds one entry per unsupported record, in input order, with the
\* given reason, and everything else of the result is what the grid without these
\* records gives
SkippedWithReason(reason) ==
    parseResult # NoResult =>
        LET result == parseResult[1]
            clean == parseCSVData(WithoutUnsupported(csvData), plcNo)
        IN  /\ result.skippedAddresses = SkipEntries(csvData, reason)
            /\ result.stats.skippedRecords = Len(SkipEntries(csvData, reason))
            /\ result.addressMappings = clean.addressMappings
            /\ result.modifiedChannelAddresses = clean.modifiedChannelAddresses
            /\ result.stats.booleanChannels = clean.stats.booleanChannels
            /\ result.stats.validRecords = clean.stats.validRecords

WithoutShortRows(data) == SelectSeq(data, LAMBDA row : Len(row) >= 4)

\* C12: the rows of fewer than 4 columns count in nothing: the result of a grid,
\* its four statistics, its mappings and its skip list, is the result of the grid
\* without these rows.
C12_ShortRowsNotCounted ==
    parseResult # NoResult =>
        LET result == parseResult[1]
            clean == parseCSVData(WithoutShortRows(csvData), plcNo)
        IN  /\ result.stats.totalRecords = clean.stats.totalRecords
            /\ result.stats.validRecords = clean.stats.validRecords
            /\ result.stats.skippedRecords = clean.stats.skippedRecords
            /\ result.stats.booleanChannels = clean.stats.booleanChannels
            /\ result.addressMappings = clean.addressMappings
            /\ result.skippedAddresses = clean.skippedAddresses

\* The same without stats.totalRecords
ShortRowsLeaveTheRest ==
    parseResult # NoResult =>
        LET result == parseResult[1]
            clean == parseCSVData(WithoutShortRows(csvData), plcNo)
        IN  /\ result.stats.validRecords = clean.stats.validRecords
            /\ result.stats.skippedRecords = clean.stats.skippedRecords
            /\ result.stats.booleanChannels = clean.stats.booleanChannels
            /\ result.addressMappings = clean.addressMappings
            /\ result.skippedAddresses = clean.skippedAddresses

\* The suffix number of the type table, looked up without regard to case
TableNumber(dataType) ==
    LET upper == toUpperCase(dataType)
    IN  IF upper \in {WORD, INT} THEN 1
        ELSE IF upper = UDINT THEN 2
        ELSE IF upper = DWORD THEN 3
        ELSE IF upper = REAL THEN 4
        ELSE IF upper = LREAL THEN 8
        ELSE 1

\* The suffix of an identifier; pad says whether the bit position is brought to
\* two digits
SuffixOf(dataType, bitPosition, isBooleanChannel, pad) ==
    IF dataType = BOOL /\ isBooleanChannel THEN << "B", "C" >>
    ELSE IF dataType = BOOL
    THEN << "B" >> \o (IF bitPosition = NoString THEN << "0", "0" >>
                       ELSE IF pad THEN padStart2(bitPosition)
                       ELSE bitPosition)
    ELSE IF dataType \in {CHANNEL, channelLower} THEN << "C" >>
    ELSE << "W" >> \o numberToString(TableNumber(dataType))

ComposedName(args, pad) ==
    << "P" >> \o numberToString(args.plcNumber) \o << "_" >>
        \o getMemoryAreaPrefix(args.address) \o << "_" >>
        \o (IF startsWithDigit(args.address) THEN args.address
            ELSE SubSeq(args.address, 2, Len(args.address))) \o << "_" >>
        \o SuffixOf(args.dataType, args.bitPosition, args.isBooleanChannel, pad)

IsGenerateCall ==
    /\ callResult # NoReturn
    /\ callArgs[1].fn = "generateOpcuaName"

\* C13: generateOpcuaName returns P{ordinal}_{area}_{regPart}_{suffix}: area the
\* memory-area classification, regPart the address without its first character
\* unless that is a digit, suffix BC for a grouped boolean, B and the bit position
\* in two digits (00 when absent) for an individual boolean, C for CHANNEL and
\* channel, W{n} otherwise with n from the type table, 1 for an unknown type.
C13_IdentifierFormat ==
    IsGenerateCall => callResult[1] = ComposedName(callArgs[1], TRUE)

\* The same for the calls whose bit position is absent or has two digits already
IdentifierFormatOfPaddedBits ==
    (IsGenerateCall /\ (callArgs[1].bitPosition = NoString
                           \/ Len(callArgs[1].bitPosition) # 1))
        => callResult[1] = ComposedName(callArgs[1], TRUE)

\* What follows the leading P{n} of an identifier generated for ordinal n
AfterOrdinal(name, n) == SubSeq(name, 2 + Len(numberToString(n)), Len(name))

OrdinalPrefix(n) == << "P" >> \o numberToString(n)

\* C14: a call of generateOpcuaName returns what a second call with the same
\* arguments returns, and a call that differs only in the PLC number returns the
\* same string after the leading P{n}.
C14_OrdinalOnlyInPrefix ==
    IsGenerateCall =>
        LET a == callArgs[1]
            Name(n) == generateOpcuaName(a.address, a.dataType, a.bitPosition,
                                         a.isBooleanChannel, n)
        IN  /\ callResult[1] = Name(a.plcNumber)
            /\ \A n \in OrdinalAlphabet :
                   /\ startsWith(Name(n), OrdinalPrefix(n) \o << "_" >>)
                   /\ AfterOrdinal(Name(n), n) = AfterOrdinal(callResult[1], a.plcNumber)

\* A name was generated for PLC number 10, whose prefix is one character longer
C14_Witness ==
    /\ IsGenerateCall
    /\ callArgs[1].plcNumber = 10
    /\ callArgs[1].address = D100
    /\ callArgs[1].dataType = UDINT
    /\ callResult[1] = << "P", "1", "0", "_", "D", "_", "1", "0", "0", "_", "W", "2" >>

IsCallOf(fn) ==
    /\ callResult # NoReturn
    /\ callArgs[1].fn = fn

\* The text before the first '.' of an address and the text after it
BeforeDot(address) ==
    IF includes(address, ".")
    THEN SubSeq(address, 1, (CHOOSE k \in 1..Len(address) :
                                address[k] = "." /\ \A j \in 1..(k - 1) : address[j] # ".") - 1)
    ELSE address

AfterDot(address) == SubSeq(address, Len(BeforeDot(address)) + 2, Len(address))

C16_OneDigitExample ==
    (IsCallOf("normalizeBooleanAddress")
        /\ callArgs[1].address = << "1", "1", "0", "0", ".", "1" >>)
        => callResult[1] = << "1", "1", "0", "0", ".", "1", "0" >>

\* The register number of an E address: what stands between the E and the '.'
RegisterNumber(address) == SubSeq(BeforeDot(address), 2, Len(BeforeDot(address)))

\* From the '.' on
BitSuffix(address) == SubSeq(address, Len(BeforeDot(address)) + 1, Len(address))

AllDigits(s) == \A k \in 1..Len(s) : s[k] \in Digits

RECURSIVE PadToFive(_)
PadToFive(s) == IF Len(s) >= 5 THEN s ELSE PadToFive(<< "0" >> \o s)

\* What the normalization of an address of the E family is to return
PaddedEAddress(address) ==
    IF /\ startsWith(address, << "E" >>)
       /\ AllDigits(RegisterNumber(address))
       /\ Len(RegisterNumber(address)) \in 1..4
    THEN << "E" >> \o PadToFive(RegisterNumber(address)) \o BitSuffix(address)
    ELSE address

\* C17: normalizeEAddress returns an E address with its register number of 1 to 4
\* digits padded with zeros to 5 digits, also when a .bit follows the number, and
\* returns an E address of 5 digits and an address of another family as it is.
C17_EAddressPaddedToFive ==
    IsCallOf("normalizeEAddress") => callResult[1] = PaddedEAddress(callArgs[1].address)

\* The same for the addresses without a .bit suffix
EAddressWithoutBitPadded ==
    (IsCallOf("normalizeEAddress") /\ ~includes(callArgs[1].address, "."))
        => callResult[1] = PaddedEAddress(callArgs[1].address)

IsLetter(c) == \E k \in 1..26 : c = UpperLetters[k] \/ c = LowerLetters[k]

AreaWhitelist == {"D", "W", "H", "A", "E", "T", "C"}

\* Whether an address is to be accepted
SupportedAsStated(address) ==
    IF Len(address) = 0 THEN FALSE
    ELSE IF Len(address) >= 2 /\ IsLetter(address[2]) THEN FALSE
    ELSE IF address[1] \in Digits THEN TRUE
    ELSE address[1] \in AreaWhitelist

\* C18: isSupportedMemoryArea rejects the empty address and every address of two
\* or more characters whose second character is a letter, accepts every other
\* address that begins with a digit, and accepts of the rest exactly those whose
\* first character is one of D, W, H, A, E, T, C.
C18_SupportedAreas ==
    IsCallOf("isSupportedMemoryArea")
        => callResult[1] = SupportedAsStated(callArgs[1].address)

\* The same for the addresses of one character, and of three or more whose second
\* character is a letter, a digit or a '.'
SupportedAreasOfUsualAddresses ==
    LET a == callArgs[1].address
    IN  (/\ IsCallOf("isSupportedMemoryArea")
         /\ Len(a) # 2
         /\ Len(a) >= 3 => (IsLetter(a[2]) \/ a[2] \in Digits \cup {"."}))
            => callResult[1] = SupportedAsStated(a)

E999Bit1 == << "E", "9", "9", "9", ".", "1" >>

E999Bit3 == << "E", "9", "9", "9", ".", "3" >>

\* The grid of two BOOL records at E999 bit 1 and bit 3 gave one channel mapping
\* of the given source address
TwoBitsOfE999(sourceAddress) ==
    (/\ parseResult # NoResult
     /\ csvData = << Row(BOOL, E999Bit1), Row(BOOL, E999Bit3) >>) =>
        LET result == parseResult[1]
        IN  /\ Len(result.addressMappings) = 1
            /\ result.addressMappings[1].plc_reg_add = sourceAddress
            /\ result.addressMappings[1].data_type = BOOL
            /\ endsWith(result.addressMappings[1].opcua_reg_add, SuffixBC)
            /\ result.modifiedChannelAddresses = << E999Bit1, E999Bit3 >>
            /\ result.stats.booleanChannels = 1

\* C19: two BOOL records at E999 bit 1 and E999 bit 3 give exactly one channel
\* mapping with the source address E0999 and an identifier ending _BC, both
\* original addresses are in the merged-boolean-address list, and
\* stats.booleanChannels is 1.
C19_TwoBitsOfE999 == TwoBitsOfE999(<< "E", "0", "9", "9", "9" >>)

\* The same with the source address as the batch builder leaves it
TwoBitsOfE999Unpadded == TwoBitsOfE999(<< "E", "9", "9", "9" >>)

\* The base addresses of the BOOL records of a grid, each once, in the order of
\* their first record
RECURSIVE FirstBases(_, _)
FirstBases(data, seen) ==
    IF data = << >> THEN << >>
    ELSE LET base == BaseOf(NormalizedOf(Head(data)))
         IN  IF IsBoolRecord(Head(data)) /\ base \notin seen
             THEN << base >> \o FirstBases(Tail(data), seen \cup {base})
             ELSE FirstBases(Tail(data), seen)

\* The records of the other types that the batch builder maps, in input order
OtherRecords(data) ==
    SelectSeq(data, LAMBDA row :
        Len(row) >= 4 /\ isSupportedMemoryArea(row[3]) /\ row[2] # BOOL)

\* C20: the list returned by parseCSVData holds first one BOOL mapping per base
\* address, in the order in which the bases first appear in the grid, and then the
\* mappings of the records of the other types in the order of these records.
C20_BooleansFirst ==
    parseResult # NoResult =>
        LET out == parseResult[1].addressMappings
            bases == FirstBases(csvData, {})
            others == OtherRecords(csvData)
        IN  /\ Len(out) = Len(bases) + Len(others)
            /\ \A k \in 1..Len(bases) :
                   /\ out[k].data_type = BOOL
                   /\ BaseOf(out[k].plc_reg_add) = bases[k]
            /\ \A k \in 1..Len(others) :
                   /\ out[Len(bases) + k].data_type = others[k][2]
                   /\ out[Len(bases) + k].plc_reg_add = normalizeEAddress(others[k][3])

\* A grid was parsed in which a record of another type stands before the BOOL
\* records of two base addresses
C20_Witness ==
    /\ parseResult # NoResult
    /\ Len(csvData) = 3
    /\ Len(csvData[1]) >= 4
    /\ isSupportedMemoryArea(csvData[1][3])
    /\ csvData[1][2] # BOOL
    /\ Len(FirstBases(csvData, {})) = 2

\* The rows of the list that pass the filter of the export
ExportedIndices ==
    {i \in Indices(mappings) :
        /\ getMemoryAreaFromMapping(At(mappings, i)) \in selectedMemoryAreas
        /\ (selectedRegisters = {} \/ i \in selectedRegisters)}

\* C21: generating the export leaves the stored mapping list as it is, also when
\* the export drops a record whose identifier an earlier record carries; the
\* exported records have pairwise distinct identifiers.
C21_ExportLeavesListAlone ==
    [][last'.op = "generateJson" =>
          /\ mappings' = mappings
          /\ PairwiseDistinct(exported')
          /\ Identifiers(exported')
                 = {At(mappings, i).opcua_reg_add : i \in ExportedIndices}
      ]_vars

\* An export has just dropped a row whose identifier an earlier exported row
\* carries, and both rows are in the list
C21_Witness ==
    /\ last.op = "generateJson"
    /\ Len(exported) < Cardinality(ExportedIndices)
    /\ \E i, j \in ExportedIndices :
           i < j /\ At(mappings, i).opcua_reg_add = At(mappings, j).opcua_reg_add

\* The first exported row that carries an identifier
FirstExported(id) ==
    CHOOSE i \in ExportedIndices :
        /\ At(mappings, i).opcua_reg_add = id
        /\ \A j \in ExportedIndices : At(mappings, j).opcua_reg_add = id => i <= j

\* C22 (as amended): identifiers are unique within the export of one PLC: no two
\* exported records carry the same identifier, and of the rows of the list that
\* carry one identifier the export holds the first.
C22_ExportedIdentifiersUnique ==
    last.op = "generateJson" =>
        /\ PairwiseDistinct(exported)
        /\ \A k \in 1..Len(exported) :
               exported[k] = exportRecord(At(mappings, FirstExported(exported[k].opcua_reg_add)))

\* C22 (as stated): no two mappings of the list carry the same identifier.
C22_IdentifiersUniqueInList == PairwiseDistinct(mappings)

\* Two rows of different addresses carry one identifier and the list was exported
C22_Witness ==
    /\ last.op = "generateJson"
    /\ Len(exported) >= 1
    /\ \E i, j \in ExportedIndices :
           /\ i < j
           /\ At(mappings, i).opcua_reg_add = At(mappings, j).opcua_reg_add
           /\ At(mappings, i).plc_reg_add # At(mappings, j).plc_reg_add

\* Address, declared type and identifier of a record
Triple(record) == << record.plc_reg_add, record.data_type, record.opcua_reg_add >>

\* The declared type as the export writes it
ExportedType(dataType) ==
    IF dataType = ModifiedChannelType THEN << "c", "h", "a", "n", "n", "e", "l" >>
    ELSE toLowerCase(dataType)

\* The rows from index i on that pass the filter, in list order
RECURSIVE ExportedFrom(_)
ExportedFrom(i) ==
    IF i >= Len(mappings) THEN << >>
    ELSE (IF i \in ExportedIndices
          THEN << [At(mappings, i) EXCEPT !.data_type = ExportedType(@)] >>
          ELSE << >>) \o ExportedFrom(i + 1)

\* C23: the export is the deduplication of the rows whose memory area is selected
\* and that are in the explicit selection unless that is empty, in list order,
\* each written with its declared type in lower case and "channel" for the
\* modified-channel type.
C23_ExportProjection ==
    last.op = "generateJson" =>
        LET before == dedupeByOpcuaName(ExportedFrom(0), plcName)
        IN  /\ Len(exported) = Len(before)
            /\ \A k \in 1..Len(exported) : Triple(exported[k]) = Triple(before[k])
            /\ PairwiseDistinct(ExportedFrom(0))
                   => Len(exported) = Cardinality(ExportedIndices)

\* An export of a non-empty selection that leaves out a row of a selected area
\* and writes a modified channel as a channel
C23_Witness ==
    /\ last.op = "generateJson"
    /\ selectedRegisters # {}
    /\ \E i \in Indices(mappings) \ ExportedIndices :
           getMemoryAreaFromMapping(At(mappings, i)) \in selectedMemoryAreas
    /\ \E i \in ExportedIndices : At(mappings, i).data_type = ModifiedChannelType
    /\ \E k \in 1..Len(exported) : exported[k].data_type = channelLower

----------------------------------------------------------------------------
(* The session of edits in a list longer than the window of mappingsHash    *)

\* Single bits of the first SingleBits registers of area D
SingleBits == 10

\* A file of SingleBits single-bit records followed by one group of two bits: the
\* channel of the group is the mapping after the first HashWindow mappings
LongGrids ==
    { [k \in 1..SingleBits |-> Row(BOOL, << "D", DigitChar(k - 1), ".", "0" >>)]
          \o << Row(BOOL, D100 \o << ".", "3" >>), Row(BOOL, D100 \o << ".", "5" >>) >> }

ImportLongFile ==
    \E grid \in LongGrids :
        /\ Rerender(parseCSVData(grid, plcNo).addressMappings, selectedRegisters)
        /\ exported' = NoExport
        /\ Step("importLongFile", -1, -1)
        /\ UNCHANGED << plcNo, expandedBoolChannels >>

NextLong ==
    \/ ImportLongFile
    \/ UpdateMapping
    \/ DebounceFire

SpecLong == Init /\ [][NextLong]_vars

\* C24: after every change of the mapping list the per-channel bit sets of
\* channelBitStates are those a fresh recomputation from the current list gives,
\* whatever the length of the list and the index of the change
C24_DerivedStateIsFresh ==
    channelBitStates = ComputeChannelBitStates(mappings, selectedMemoryAreas)

\* The same, of the lists that fit into the window of mappingsHash
DerivedStateIsFreshInWindow ==
    Len(mappings) <= HashWindow
        => channelBitStates = ComputeChannelBitStates(mappings, selectedMemoryAreas)

----------------------------------------------------------------------------
(* The session of edits and changes of the PLC number                       *)

NextRename ==
    \/ ImportFile
    \/ SetPlcNo
    \/ UpdateMapping
    \/ DebounceFire

SpecRename == Init /\ [][NextRename]_vars

\* The identifier the edit path gives a mapping with this address and type
EditPathName(mapping, plc) ==
    updatedOpcuaName(mapping.plc_reg_add, mapping.data_type, getValidPlcNo(plc))

HasAddressAndType(mapping) ==
    mapping.plc_reg_add # EmptyString /\ mapping.data_type # EmptyString

\* C25: the identifier a mapping gets when the PLC ordinal changes is the one an
\* edit of its address or type gives for the same address, type and ordinal,
\* whatever the kind of the mapping
C25_RegenerationPathsAgree ==
    [][last'.op = "setPlcNo"
          => \A k \in 1..Len(mappings') :
                 HasAddressAndType(mappings'[k])
                     => mappings'[k].opcua_reg_add = EditPathName(mappings'[k], plcNo')]_vars

\* The same, of the mappings that are neither boolean channels nor modified channels
RegenerationPathsAgreeElsewhere ==
    [][last'.op = "setPlcNo"
          => \A k \in 1..Len(mappings') :
                 /\ HasAddressAndType(mappings'[k])
                 /\ ~endsWith(mappings[k].opcua_reg_add, SuffixBC)
                 /\ ~isModifiedChannel(mappings'[k])
                 => mappings'[k].opcua_reg_add = EditPathName(mappings'[k], plcNo')]_vars

----------------------------------------------------------------------------
(* The session of bit toggles and row edits                                 *)

NextToggleEdit ==
    \/ ImportFile
    \/ ToggleBoolChannelExpansion
    \/ ToggleBit
    \/ UpdateMapping
    \/ DebounceFire

SpecToggleEdit == Init /\ [][NextToggleEdit]_vars

\* The individual boolean mappings of a base, as address/identifier pairs
IndividualPairs(list, base) ==
    {<< list[k].plc_reg_add, list[k].opcua_reg_add >> : k \in IndividualAt(list, base)}

\* The index of the channel mapping of index i after toggleBit has dropped the
\* individual entries of its base
IndexAfterToggle(list, i) ==
    LET base == BaseOf(At(list, i).plc_reg_add)
    IN  i - Cardinality({k \in IndividualAt(list, base) :
                            k - 1 < i /\ ~endsWith(list[k].opcua_reg_add, SuffixBC)})

\* toggleBit(i, b), the re-render, and toggleBit of the same channel and bit again
ToggledTwice(i, b) ==
    LET once == toggleBitList(mappings, channelBitStates, i, b, TablePlcNo)
        memo == channelBitStatesMemo(channelBitStates, mappings, selectedMemoryAreas,
                                     once, selectedMemoryAreas)
    IN  toggleBitList(once, memo, IndexAfterToggle(mappings, i), b, TablePlcNo)

\* C26: toggling the same bit of a boolean channel twice leaves the individual
\* boolean mappings of the base of the channel, as address/identifier pairs, as
\* they were, for every reachable list and every bit 0..15
C26_ToggleTwiceIsIdentity ==
    \A i \in Indices(mappings), b \in BitIndices :
        Visible(i) /\ isBoolChannel(At(mappings, i))
            => LET base == BaseOf(At(mappings, i).plc_reg_add)
               IN  IndividualPairs(ToggledTwice(i, b), base) = IndividualPairs(mappings, base)

\* The same, of the bits the individual mappings of the base claim
ToggleTwiceKeepsBits ==
    \A i \in Indices(mappings), b \in BitIndices :
        Visible(i) /\ isBoolChannel(At(mappings, i))
            => LET base == BaseOf(At(mappings, i).plc_reg_add)
               IN  IndividualBits(ToggledTwice(i, b), base) = IndividualBits(mappings, base)

----------------------------------------------------------------------------
(* The session of row selections, added and removed rows and bit toggles    *)

NextSelect ==
    \/ ImportFile
    \/ ToggleRegisterSelection
    \/ ToggleBoolChannelExpansion
    \/ ToggleBit
    \/ AddMapping
    \/ RemoveMapping

SpecSelect == Init /\ [][NextSelect]_vars

SelectionIsValid(sel, list) == sel \subseteq Indices(list)

\* The selected rows that stay selected denote the mapping they denoted: shift is
\* the index a selected row has after the step
SelectionDenotesTheSame(shift(_)) ==
    /\ SelectionIsValid(selectedRegisters', mappings')
    /\ \A i \in selectedRegisters :
           shift(i) \in selectedRegisters' /\ shift(i) \in Indices(mappings')
               => At(mappings', shift(i)) = At(mappings, i)

SameIndex(i) == i

IndexAfterAdd(i) == i + 1

IndexAfterRemove(i) == IF i > last'.index THEN i - 1 ELSE IF i = last'.index THEN -1 ELSE i

\* The steps of addMapping, removeMapping and the row-selection toggles keep the
\* selection valid and on the same mappings
SelectionFollowsAddAndRemove ==
    [][SelectionIsValid(selectedRegisters, mappings)
          => /\ last'.op = "addMapping"
                    => /\ SelectionDenotesTheSame(IndexAfterAdd)
                       /\ selectedRegisters' = {i + 1 : i \in selectedRegisters} \cup {0}
             /\ last'.op = "removeMapping" => SelectionDenotesTheSame(IndexAfterRemove)
             /\ last'.op = "toggleRegisterSelection"
                    => SelectionDenotesTheSame(SameIndex)]_vars

\* C27: addMapping, removeMapping, toggleBit and the row-selection toggles leave
\* every selected index a valid index of the list that denotes the mapping the
\* user selected; toggleBit does not make a selected index point at another
\* mapping or past the end of the list
C27_SelectionFollowsMappings ==
    [][SelectionIsValid(selectedRegisters, mappings)
          => /\ last'.op = "addMapping" => SelectionDenotesTheSame(IndexAfterAdd)
             /\ last'.op = "removeMapping" => SelectionDenotesTheSame(IndexAfterRemove)
             /\ last'.op = "toggleRegisterSelection" => SelectionDenotesTheSame(SameIndex)
             /\ last'.op = "toggleBit" => SelectionDenotesTheSame(SameIndex)]_vars

\* The mappings of a parsed list that are boolean channels
ChannelMappings(list) == {k \in 1..Len(list) : isBoolChannel(list[k])}

\* C28: parseCSVData accounts for every row of 4 or more columns exactly once: the
\* number of these rows is skippedRecords + validRecords + (merged boolean
\* addresses - booleanChannels), validRecords being the length of the mapping
\* list, skippedRecords that of the skip list and booleanChannels the number of
\* channel mappings of the output
C28_RowsAccountedOnce ==
    parseResult # NoResult
        => LET result == parseResult[1]
               stats == result.stats
           IN  /\ Len(WithoutShortRows(csvData))
                      = stats.skippedRecords + stats.validRecords
                            + (Len(result.modifiedChannelAddresses) - stats.booleanChannels)
               /\ stats.validRecords = Len(result.addressMappings)
               /\ stats.skippedRecords = Len(result.skippedAddresses)
               /\ stats.booleanChannels = Cardinality(ChannelMappings(result.addressMappings))

\* A file with a skipped record and a group of two records merged into a channel
C28_Witness ==
    /\ parseResult # NoResult
    /\ Len(WithoutShortRows(csvData)) = MaxRows
    /\ parseResult[1].stats.skippedRecords >= 1
    /\ parseResult[1].stats.booleanChannels >= 1
    /\ Len(parseResult[1].modifiedChannelAddresses) >= 2

\* The records of a list in its order, before deduplication
ExportRecords(list) == [k \in 1..Len(list) |-> exportRecord(list[k])]

AreaW == << "W" >>

\* C29: with the default selection of memory areas and no row selected explicitly,
\* every mapping parseCSVData returns passes the filter of generateJson, and the
\* exported list is the batch list less the records dropped by the keep-first
\* deduplication
C29_ParsedMappingsExportable ==
    parseResult # NoResult
        => LET list == parseResult[1].addressMappings
           IN  /\ \A i \in Indices(list) : exportFilter(list, DefaultAreas, {}, i)
               /\ generateJson(list, DefaultAreas, {}, plcName)
                      = dedupeByOpcuaName(ExportRecords(list), plcName)

\* The same, of the mappings outside area W
ParsedMappingsExportableOutsideW ==
    parseResult # NoResult
        => LET list == parseResult[1].addressMappings
               kept == SelectSeq(list, LAMBDA m : getMemoryAreaFromMapping(m) # AreaW)
           IN  /\ \A i \in Indices(list) :
                      getMemoryAreaFromMapping(At(list, i)) # AreaW
                          => exportFilter(list, DefaultAreas, {}, i)
               /\ generateJson(list, DefaultAreas, {}, plcName)
                      = dedupeByOpcuaName(ExportRecords(kept), plcName)

\* getExistingBitsForAddress: the bits of the current mapping, read from bit_list
\* when the mapping has one and from its metadata otherwise
currentModifiedBits(currentMapping) ==
    IF ~isModifiedChannel(currentMapping) THEN {}
    ELSE IF currentMapping.bit_list # NoBitList THEN SeqToSet(currentMapping.bit_list[1])
    ELSE IF currentMapping.metadata # NoMetadata
    THEN {currentMapping.metadata[1].bit_mappings[key].bit_position :
              key \in DOMAIN currentMapping.metadata[1].bit_mappings}
    ELSE {}

BitKeyOf(bit) == << "b", "i", "t", "_" >> \o TwoDigits(bit)

\* The count, the keys and the bit positions of the metadata are those of the bits
MetadataCountsBits(mapping, bits) ==
    /\ mapping.metadata # NoMetadata
    /\ LET meta == mapping.metadata[1]
       IN  /\ meta.bit_count = Cardinality(DOMAIN meta.bit_mappings)
           /\ meta.bit_count = Cardinality(bits)
           /\ DOMAIN meta.bit_mappings = {BitKeyOf(b) : b \in bits}
           /\ \A b \in bits : meta.bit_mappings[BitKeyOf(b)].bit_position = b

\* The address of every entry of the metadata is base.bb
MetadataAddressesOfBase(mapping, bits) ==
    /\ mapping.metadata # NoMetadata
    /\ \A b \in bits :
           BitKeyOf(b) \in DOMAIN mapping.metadata[1].bit_mappings
               => mapping.metadata[1].bit_mappings[BitKeyOf(b)].address
                      = BaseOf(mapping.plc_reg_add) \o << "." >> \o TwoDigits(b)

\* The bits of mapping i that toggleModifiedChannelBit(i, b) starts from
BitsBefore(i) == IF i \in DOMAIN modifiedChannelBits THEN modifiedChannelBits[i] ELSE {}

\* The mapping i after toggleModifiedChannelBit(i, b)
ModifiedToggled(i, b) ==
    At(toggleModifiedChannelBitList(mappings, modifiedChannelBits, i, b), i)

\* The table reads back the bits that the metadata of mapping i claims
ReadBack(i, bits) ==
    /\ i \in DOMAIN modifiedChannelBits' /\ modifiedChannelBits'[i] = bits
    /\ currentModifiedBits(At(mappings', i)) = bits

\* The metadata but for its addresses, after every toggle of the session and for
\* the toggle of any bit 0..15 in its place
MetadataFaithfulButAddresses ==
    [][last'.op = "toggleModifiedChannelBit"
           => LET i == last'.index
                  bits == Flip(BitsBefore(i), last'.bit)
              IN  /\ MetadataCountsBits(At(mappings', i), bits)
                  /\ ReadBack(i, bits)
                  /\ \A b \in BitIndices :
                         MetadataCountsBits(ModifiedToggled(i, b), Flip(BitsBefore(i), b))]_vars

\* C30: after toggleModifiedChannelBit operations the metadata of the mapping is a
\* faithful view of its bits: bit_count is the number of entries and of bits, every
\* bit b has the one entry bit_bb with bit_position b and address base.bb, no other
\* entry exists, and the table reads the same set back
C30_MetadataIsFaithful ==
    [][last'.op = "toggleModifiedChannelBit"
           => LET i == last'.index
                  bits == Flip(BitsBefore(i), last'.bit)
              IN  /\ MetadataCountsBits(At(mappings', i), bits)
                  /\ MetadataAddressesOfBase(At(mappings', i), bits)
                  /\ ReadBack(i, bits)
                  /\ \A b \in BitIndices :
                         LET other == Flip(BitsBefore(i), b)
                         IN  /\ MetadataCountsBits(ModifiedToggled(i, b), other)
                             /\ MetadataAddressesOfBase(ModifiedToggled(i, b), other)]_vars

============================================================================
